---- MODULE Spec2Model ----
(***************************************************************************)
(* Signaling / session-state core of the livestream server                 *)
(* (src/unnamed/part_001, the socket.io handlers of lines 678-979).        *)
(*                                                                         *)
(* Every socket.on(...) handler runs to completion on the single node.js   *)
(* event loop, so each handler is one atomic action.                       *)
(***************************************************************************)
EXTENDS Integers, Sequences, FiniteSets, TLC

\* ------------------------------------------------------------------ bounds
NumSockets == 3          \* socket ids that ever connect during a run
MaxClock   == 1          \* the wall clock takes the values 0..MaxClock
MaxViewers == 2          \* viewerCount++ is not taken beyond this value

Sockets   == 1..NumSockets
Usernames == {"ann", "bob"}
null      == -1          \* JavaScript null (no socket id, no Date)

VARIABLES
    sockets,         \* transport state of every socket id: "idle", "open", "closed"
    connectedUsers,  \* Map socket.id -> {username, isAdmin}
    streamState,     \* {isLive, activeStreams, viewerCount, startTime, currentAdminSocketId}
    clock,           \* what new Date() / Date.now() returns
    emitted,         \* the emissions of the handler that ran last, in order
    chan,            \* per socket: chat-message events sent and not yet received
    messages,        \* per socket: the messages state of its Chat component
    admin            \* one AdminPanel page: streamRef, isStreaming, peersRef, ...

chatVars == <<chan, messages>>
vars == <<sockets, connectedUsers, streamState, clock, emitted, chan, messages, admin>>

\* ------------------------------------------------- Map with insertion order
\* streamState.activeStreams is a JavaScript Map: iteration follows insertion
\* order, delete keeps the order of the others, set of a new key appends.
MapKeys(m)      == {m[i].id : i \in DOMAIN m}
MapHas(m, k)    == k \in MapKeys(m)
MapSize(m)      == Len(m)
MapDelete(m, k) == SelectSeq(m, LAMBDA e : e.id # k)
MapSet(m, k, v) ==
    IF MapHas(m, k)
    THEN [i \in DOMAIN m |-> IF m[i].id = k THEN [id |-> k] @@ v ELSE m[i]]
    ELSE Append(m, [id |-> k] @@ v)
\* a failover that takes the most recent entry
MapLastKey(m)   == m[Len(m)].id
\* activeStreams.keys().next().value
MapFirstKey(m)  == m[1].id

\* ------------------------------------------------------------- socket.io
\* io.emit reaches every socket connected to the namespace; a socket whose
\* 'disconnect' handler is running has already left it.
OpenSockets == {s \in Sockets : sockets[s] = "open"}
\* io.emit(event, data) seen from a handler whose audience is `all`
IoEmit(all, event, data)    == [event |-> event, to |-> all, data |-> data]
\* socket.emit(event, data)
SocketEmit(s, event, data)  == [event |-> event, to |-> {s}, data |-> data]
\* io.to(room).emit(event, data): the room of a socket id holds that socket
\* while it is connected, and nobody otherwise
IoToEmit(all, room, event, data) ==
    [event |-> event, to |-> all \cap {room}, data |-> data]

\* the {isLive, viewerCount, startTime, currentAdminSocketId} object
StatusOf(st) ==
    [isLive               |-> st.isLive,
     viewerCount          |-> st.viewerCount,
     startTime            |-> st.startTime,
     currentAdminSocketId |-> st.currentAdminSocketId]

OfflineStatus ==
    [isLive |-> FALSE, viewerCount |-> 0, startTime |-> null,
     currentAdminSocketId |-> null]

\* ------------------------------------------------------------------- Init
Init ==
    /\ sockets        = [s \in Sockets |-> "idle"]
    /\ connectedUsers = << >>
    /\ streamState    = [isLive               |-> FALSE,
                         activeStreams        |-> << >>,
                         viewerCount          |-> 0,
                         startTime            |-> null,
                         currentAdminSocketId |-> null]
    /\ clock          = 0
    /\ emitted        = << >>
    /\ chan           = [s \in Sockets |-> << >>]
    /\ messages       = [s \in Sockets |-> << >>]
    /\ admin          = [streamRef   |-> FALSE,
                         isStreaming |-> FALSE,
                         rendered    |-> FALSE,
                         pending     |-> 0,
                         peersRef    |-> << >>,
                         live        |-> {},
                         made        |-> 0]

\* the engine gives every connection an id no earlier connection had; ids
\* are opaque to the handlers, so the next one is taken to be the least
\* unused number
FreshId(s) == sockets[s] = "idle" /\ \A x \in 1..(s - 1) : sockets[x] # "idle"

\* io.on('connection'): the handlers are attached, nothing else happens
Connection(s) ==
    /\ FreshId(s)
    /\ sockets'   = [sockets EXCEPT ![s] = "open"]
    /\ emitted'   = << >>
    /\ UNCHANGED <<connectedUsers, streamState, clock, chatVars, admin>>

\* time passes between two handlers
Tick ==
    /\ clock < MaxClock
    /\ clock'     = clock + 1
    /\ emitted'   = << >>
    /\ UNCHANGED <<sockets, connectedUsers, streamState, chatVars, admin>>

\* a registration that keeps an entry the connection already has
UserInfoSetKeepsFirst(users, s, username, isAdmin) ==
    [x \in DOMAIN users \cup {s} |->
        IF x \in DOMAIN users
        THEN users[x]
        ELSE [username |-> username, isAdmin |-> isAdmin]]

\* connectedUsers.set(socket.id, {...}).  joinTime (line 687) is written here
\* and read nowhere in the repository; the entry is kept without it.
UserInfoSet(users, s, username, isAdmin) ==
    [x \in DOMAIN users \cup {s} |->
        IF x = s
        THEN [username |-> username, isAdmin |-> isAdmin]
        ELSE users[x]]

\* socket.on('user-info')
UserInfo(s, username, isAdmin) ==
    /\ sockets[s] = "open"
    /\ connectedUsers' = UserInfoSet(connectedUsers, s, username, isAdmin)
    /\ emitted'   = << SocketEmit(s, "stream-status", StatusOf(streamState)) >>
    /\ UNCHANGED <<sockets, streamState, clock, chatVars, admin>>

\* --------------------------------------------------------- start-stream
\* a start that leaves the stream's startTime as it was
StartStreamStateNoTime(st, user, s, now) ==
    [st EXCEPT
        !.isLive               = TRUE,
        !.currentAdminSocketId = s,
        !.activeStreams        = MapSet(@, s, [isPrimary |-> TRUE])]

\* lines 713-723: the state a successful start-stream leaves.  The entry's
\* adminUsername and startTime (lines 720-721) are written here and read
\* nowhere in the repository; the entry is kept without them.
StartStreamState(st, user, s, now) ==
    [st EXCEPT
        !.isLive               = TRUE,
        !.currentAdminSocketId = s,
        !.startTime            = now,
        !.activeStreams        = MapSet(@, s, [isPrimary |-> TRUE])]

\* a start-stream that sends the snapshot ahead of the announcement
StartStreamEmitsStatusFirst(st, user, s, all) ==
    << IoEmit(all, "stream-status", StatusOf(st)),
       IoEmit(all, "stream-started",
              [message       |-> "Live stream started",
               startTime     |-> st.startTime,
               adminUsername |-> user.username,
               adminSocketId |-> s]) >>

\* lines 725-739: what a successful start-stream emits, st being the new state
StartStreamEmits(st, user, s, all) ==
    << IoEmit(all, "stream-started",
              [message       |-> "Live stream started",
               startTime     |-> st.startTime,
               adminUsername |-> user.username,
               adminSocketId |-> s]),
       IoEmit(all, "stream-status", StatusOf(st)) >>

\* the condition of line 704
IsAdminUser(users, s) == s \in DOMAIN users /\ users[s].isAdmin
\* user && !user.isAdmin
IsViewerUser(users, s) == s \in DOMAIN users /\ ~users[s].isAdmin

\* a start-stream without the check of line 708
StartStreamResultNoDupCheck(st, users, s, all, now) ==
    IF IsAdminUser(users, s)
    THEN LET st1 == StartStreamState(st, users[s], s, now)
         IN  [state |-> st1, out |-> StartStreamEmits(st1, users[s], s, all)]
    ELSE [state |-> st,
          out   |-> << SocketEmit(s, "stream-error",
                          [message |-> "Only admins can start streams"]) >>]

\* socket.on('start-stream')
StartStreamResult(st, users, s, all, now) ==
    IF IsAdminUser(users, s)
    THEN IF MapHas(st.activeStreams, s)
         THEN [state |-> st,
               out   |-> << SocketEmit(s, "stream-error",
                               [message |-> "You are already streaming"]) >>]
         ELSE LET st1 == StartStreamState(st, users[s], s, now)
              IN  [state |-> st1,
                   out   |-> StartStreamEmits(st1, users[s], s, all)]
    ELSE [state |-> st,
          out   |-> << SocketEmit(s, "stream-error",
                          [message |-> "Only admins can start streams"]) >>]

StartStream(s) ==
    /\ sockets[s] = "open"
    /\ LET r == StartStreamResult(streamState, connectedUsers, s, OpenSockets, clock)
       IN  /\ streamState' = r.state
           /\ emitted'     = r.out
    /\ UNCHANGED <<sockets, connectedUsers, clock, chatVars, admin>>

\* ---------------------------------------------------------- stop-stream
\* stream ends that forget one of the four resets
StreamEndedStateStillLive(st) ==
    [st EXCEPT !.currentAdminSocketId = null, !.viewerCount = 0, !.startTime = null]
StreamEndedStateKeepsAdmin(st) ==
    [st EXCEPT !.isLive = FALSE, !.viewerCount = 0, !.startTime = null]
StreamEndedStateKeepsViewers(st) ==
    [st EXCEPT !.isLive = FALSE, !.currentAdminSocketId = null, !.startTime = null]
StreamEndedStateKeepsTime(st) ==
    [st EXCEPT !.isLive = FALSE, !.currentAdminSocketId = null, !.viewerCount = 0]

\* lines 769-772 / 943-946
StreamEndedState(st) ==
    [st EXCEPT !.isLive               = FALSE,
               !.currentAdminSocketId = null,
               !.viewerCount          = 0,
               !.startTime            = null]

\* a stop-stream that announces the state whenever a session is removed
StopStreamResultAnnouncesAll(st, users, s, all) ==
    IF IsAdminUser(users, s) /\ MapHas(st.activeStreams, s)
    THEN LET st1 == [st EXCEPT !.activeStreams = MapDelete(@, s)]
         IN  IF st1.currentAdminSocketId = s
             THEN IF MapSize(st1.activeStreams) > 0
                  THEN LET nextAdmin == MapFirstKey(st1.activeStreams)
                       IN  [state |-> [st1 EXCEPT !.currentAdminSocketId = nextAdmin],
                            out   |-> << IoEmit(all, "stream-transition",
                                            [message |-> "Stream switched to another admin",
                                             newAdminSocketId |-> nextAdmin]) >>]
                  ELSE [state |-> StreamEndedState(st1),
                        out   |-> << IoEmit(all, "stream-ended",
                                        [message |-> "Live stream ended"]),
                                     IoEmit(all, "stream-status", OfflineStatus) >>]
             ELSE [state |-> st1,
                   out   |-> << IoEmit(all, "stream-status", StatusOf(st1)) >>]
    ELSE [state |-> st, out |-> << >>]

\* socket.on('stop-stream')
StopStreamResult(st, users, s, all) ==
    IF IsAdminUser(users, s) /\ MapHas(st.activeStreams, s)
    THEN LET st1 == [st EXCEPT !.activeStreams = MapDelete(@, s)]
         IN  IF st1.currentAdminSocketId = s
             THEN IF MapSize(st1.activeStreams) > 0
                  THEN LET nextAdmin == MapFirstKey(st1.activeStreams)
                       IN  [state |-> [st1 EXCEPT !.currentAdminSocketId = nextAdmin],
                            out   |-> << IoEmit(all, "stream-transition",
                                            [message |-> "Stream switched to another admin",
                                             newAdminSocketId |-> nextAdmin]) >>]
                  ELSE [state |-> StreamEndedState(st1),
                        out   |-> << IoEmit(all, "stream-ended",
                                        [message |-> "Live stream ended"]),
                                     IoEmit(all, "stream-status", OfflineStatus) >>]
             ELSE [state |-> st1, out |-> << >>]
    ELSE [state |-> st, out |-> << >>]

StopStream(s) ==
    /\ sockets[s] = "open"
    /\ LET r == StopStreamResult(streamState, connectedUsers, s, OpenSockets)
       IN  /\ streamState' = r.state
           /\ emitted'     = r.out
    /\ UNCHANGED <<sockets, connectedUsers, clock, chatVars, admin>>

\* ----------------------------------------------------------- join-stream
\* a join-stream that does not look at isLive
JoinStreamResultNoLiveCheck(st, users, s, all) ==
    IF IsViewerUser(users, s)
    THEN LET st1 == [st EXCEPT !.viewerCount = @ + 1]
         IN  [state |-> st1,
              out   |-> << IoEmit(all, "viewer-count-update",
                              [viewerCount |-> st1.viewerCount]) >>]
    ELSE [state |-> st,
          out   |-> << SocketEmit(s, "stream-error",
                          [message |-> "Failed to join stream"]) >>]

\* socket.on('join-stream')
JoinStreamResult(st, users, s, all) ==
    IF IsViewerUser(users, s) /\ st.isLive
    THEN LET st1 == [st EXCEPT !.viewerCount = @ + 1]
         IN  [state |-> st1,
              out   |->
                 (IF st1.currentAdminSocketId # null
                  THEN << IoToEmit(all, st1.currentAdminSocketId, "viewer-joined",
                             [viewerCount    |-> st1.viewerCount,
                              viewerSocketId |-> s,
                              viewerUsername |-> users[s].username]) >>
                  ELSE << >>)
                 \o << IoEmit(all, "viewer-count-update",
                          [viewerCount |-> st1.viewerCount]),
                       SocketEmit(s, "viewer-joined-confirmed",
                          [message     |-> "Successfully joined stream",
                           viewerCount |-> st1.viewerCount]) >>]
    ELSE [state |-> st,
          out   |-> << SocketEmit(s, "stream-error",
                          [message |-> IF st.isLive THEN "Failed to join stream"
                                       ELSE "No live stream available"]) >>]

JoinStream(s) ==
    /\ sockets[s] = "open"
    /\ (IsViewerUser(connectedUsers, s) /\ streamState.isLive)
          => streamState.viewerCount < MaxViewers
    /\ LET r == JoinStreamResult(streamState, connectedUsers, s, OpenSockets)
       IN  /\ streamState' = r.state
           /\ emitted'     = r.out
    /\ UNCHANGED <<sockets, connectedUsers, clock, chatVars, admin>>

\* ---------------------------------------------------------- leave-stream
\* a maximum that is always its second argument
MaxUnfloored(a, b) == b
Max(a, b) == IF a >= b THEN a ELSE b

\* lines 850-864 / 962-973: the viewer count goes down and is announced
ViewerLeftResult(st, users, s, all) ==
    LET st1 == [st EXCEPT !.viewerCount = Max(0, @ - 1)]
    IN  [state |-> st1,
         out   |->
            (IF st1.currentAdminSocketId # null
             THEN << IoToEmit(all, st1.currentAdminSocketId, "viewer-left",
                        [viewerCount    |-> st1.viewerCount,
                         viewerSocketId |-> s,
                         viewerUsername |-> users[s].username]) >>
             ELSE << >>)
            \o << IoEmit(all, "viewer-count-update",
                     [viewerCount |-> st1.viewerCount]) >>]

\* socket.on('leave-stream')
LeaveStreamResult(st, users, s, all) ==
    IF IsViewerUser(users, s) /\ st.isLive
    THEN ViewerLeftResult(st, users, s, all)
    ELSE [state |-> st, out |-> << >>]

LeaveStream(s) ==
    /\ sockets[s] = "open"
    /\ LET r == LeaveStreamResult(streamState, connectedUsers, s, OpenSockets)
       IN  /\ streamState' = r.state
           /\ emitted'     = r.out
    /\ UNCHANGED <<sockets, connectedUsers, clock, chatVars, admin>>

\* ----------------------------------------------------- get-stream-status
\* a status request answered to every connection
GetStreamStatusBroadcast(s) ==
    /\ sockets[s] = "open"
    /\ emitted'   = << IoEmit(OpenSockets, "stream-status", StatusOf(streamState)) >>
    /\ UNCHANGED <<sockets, connectedUsers, streamState, clock, chatVars, admin>>

\* socket.on('get-stream-status')
GetStreamStatus(s) ==
    /\ sockets[s] = "open"
    /\ emitted'   = << SocketEmit(s, "stream-status", StatusOf(streamState)) >>
    /\ UNCHANGED <<sockets, connectedUsers, streamState, clock, chatVars, admin>>

\* ------------------------------------------------------------ disconnect
\* a disconnect that treats every registered connection as a viewer
DisconnectResultViewerOnly(st, users, s, all) ==
    IF s \in DOMAIN users /\ st.isLive
    THEN ViewerLeftResult(st, users, s, all)
    ELSE [state |-> st, out |-> << >>]

\* a disconnect whose failover starts the viewer count anew
DisconnectResultFailoverResets(st, users, s, all) ==
    IF s \in DOMAIN users
    THEN IF users[s].isAdmin /\ MapHas(st.activeStreams, s)
         THEN LET st1 == [st EXCEPT !.activeStreams = MapDelete(@, s)]
              IN  IF st1.currentAdminSocketId = s
                  THEN IF MapSize(st1.activeStreams) > 0
                       THEN LET nextAdmin == MapFirstKey(st1.activeStreams)
                            IN  [state |-> [st1 EXCEPT !.currentAdminSocketId = nextAdmin,
                                                       !.viewerCount = 0],
                                 out   |-> << IoEmit(all, "stream-transition",
                                                 [message |-> "Stream switched due to admin disconnect",
                                                  newAdminSocketId |-> nextAdmin]) >>]
                       ELSE [state |-> StreamEndedState(st1),
                             out   |-> << IoEmit(all, "stream-ended",
                                             [message |-> "Stream ended - Admin disconnected"]),
                                          IoEmit(all, "stream-status", OfflineStatus) >>]
                  ELSE [state |-> st1, out |-> << >>]
         ELSE IF ~users[s].isAdmin /\ st.isLive
              THEN ViewerLeftResult(st, users, s, all)
              ELSE [state |-> st, out |-> << >>]
    ELSE [state |-> st, out |-> << >>]

\* socket.on('disconnect'), lines 922-975: `all` no longer holds s
DisconnectResult(st, users, s, all) ==
    IF s \in DOMAIN users
    THEN IF users[s].isAdmin /\ MapHas(st.activeStreams, s)
         THEN LET st1 == [st EXCEPT !.activeStreams = MapDelete(@, s)]
              IN  IF st1.currentAdminSocketId = s
                  THEN IF MapSize(st1.activeStreams) > 0
                       THEN LET nextAdmin == MapFirstKey(st1.activeStreams)
                            IN  [state |-> [st1 EXCEPT !.currentAdminSocketId = nextAdmin],
                                 out   |-> << IoEmit(all, "stream-transition",
                                                 [message |-> "Stream switched due to admin disconnect",
                                                  newAdminSocketId |-> nextAdmin]) >>]
                       ELSE [state |-> StreamEndedState(st1),
                             out   |-> << IoEmit(all, "stream-ended",
                                             [message |-> "Stream ended - Admin disconnected"]),
                                          IoEmit(all, "stream-status", OfflineStatus) >>]
                  ELSE [state |-> st1, out |-> << >>]
         ELSE IF ~users[s].isAdmin /\ st.isLive
              THEN ViewerLeftResult(st, users, s, all)
              ELSE [state |-> st, out |-> << >>]
    ELSE [state |-> st, out |-> << >>]

\* connectedUsers.delete(socket.id)
UsersDelete(users, s) == [x \in DOMAIN users \ {s} |-> users[x]]

Disconnect(s) ==
    /\ sockets[s] = "open"
    /\ sockets' = [sockets EXCEPT ![s] = "closed"]
    /\ LET r == DisconnectResult(streamState, connectedUsers, s, OpenSockets \ {s})
       IN  /\ streamState' = r.state
           /\ emitted'     = r.out
    /\ connectedUsers' = UsersDelete(connectedUsers, s)
    \* the connection is gone: what was in flight to it is lost, and so is
    \* the page's Chat component
    /\ chan'     = [chan EXCEPT ![s] = << >>]
    /\ messages' = [messages EXCEPT ![s] = << >>]
    /\ UNCHANGED <<clock, admin>>

Next ==
    \/ \E s \in Sockets : Connection(s)
    \/ Tick
    \/ \E s \in Sockets, n \in Usernames, a \in BOOLEAN : UserInfo(s, n, a)
    \/ \E s \in Sockets : StartStream(s)
    \/ \E s \in Sockets : StopStream(s)
    \/ \E s \in Sockets : JoinStream(s)
    \/ \E s \in Sockets : LeaveStream(s)
    \/ \E s \in Sockets : GetStreamStatus(s)
    \/ \E s \in Sockets : Disconnect(s)

Spec == Init /\ [][Next]_vars

\* --------------------------------------------------------- webrtc-signal
\* the payload is opaque to the server: two values stand for all of them
Signals     == {"sdp-a", "sdp-b"}
SignalTypes == {"offer", "answer"}
\* what a client may put in the event: `to` may be missing (null), `from` is
\* whatever the client claims (the clients of this repository send their own
\* id, part_000 line 109 and part_001 line 302)
SignalData  ==
    [to : Sockets \cup {null}, signal : Signals, type : SignalTypes, from : Sockets]

\* a relay that believes the sender named in the event
WebrtcSignalEmitsClaimedFrom(data, s, all) ==
    IF data.to # null
    THEN << IoToEmit(all, data.to, "webrtc-signal",
               [signal |-> data.signal, from |-> data.from, type |-> data.type]) >>
    ELSE << >>

\* a relay that emits to everybody
WebrtcSignalEmitsToAll(data, s, all) ==
    IF data.to # null
    THEN << IoEmit(all, "webrtc-signal",
               [signal |-> data.signal, from |-> s, type |-> data.type]) >>
    ELSE << >>

\* lines 886-896
WebrtcSignalEmits(data, s, all) ==
    IF data.to # null
    THEN << IoToEmit(all, data.to, "webrtc-signal",
               [signal |-> data.signal, from |-> s, type |-> data.type]) >>
    ELSE << >>

\* socket.on('webrtc-signal')
WebrtcSignal(s, data) ==
    /\ sockets[s] = "open"
    /\ emitted' = WebrtcSignalEmits(data, s, OpenSockets)
    /\ UNCHANGED <<sockets, connectedUsers, streamState, clock, chatVars, admin>>

\* The relay reads neither the registry nor the stream state; it is run
\* against connections that come, register, start a stream and go.
NextSignal ==
    \/ \E s \in Sockets : Connection(s)
    \/ \E s \in Sockets, n \in Usernames, a \in BOOLEAN : UserInfo(s, n, a)
    \/ \E s \in Sockets : StartStream(s)
    \/ \E s \in Sockets : Disconnect(s)
    \/ \E s \in Sockets, data \in SignalData : WebrtcSignal(s, data)

SpecSignal == Init /\ [][NextSignal]_vars

\* ------------------------------------------------------------------ chat
MaxChat == 2             \* chat messages a connection holds, received or in flight
Texts   == {"hi", "yo"}
\* what Chat.jsx sends (line 32): { message: message.trim() }
ChatData == [message : Texts]

\* a message that takes the name and role its payload claims
ChatMessageObjectClaimed(user, s, data, now) ==
    [id        |-> now,
     username  |-> data.username,
     message   |-> data.message,
     timestamp |-> now,
     isAdmin   |-> data.isAdmin,
     socketId  |-> s]

\* lines 903-910: the message object
ChatMessageObject(user, s, data, now) ==
    [id        |-> now,
     username  |-> user.username,
     message   |-> data.message,
     timestamp |-> now,
     isAdmin   |-> user.isAdmin,
     socketId  |-> s]

\* a fan-out that leaves the sender out (socket.broadcast.emit)
ChatMessageEmitsBroadcast(users, s, data, now, all) ==
    IF s \in DOMAIN users
    THEN << IoEmit(all \ {s}, "chat-message",
                   ChatMessageObject(users[s], s, data, now)) >>
    ELSE << >>

\* a chat handler that lets a connection without a registry entry speak
ChatMessageEmitsAnonymous(users, s, data, now, all) ==
    << IoEmit(all, "chat-message",
              ChatMessageObject(IF s \in DOMAIN users THEN users[s]
                                ELSE [username |-> "anonymous", isAdmin |-> FALSE],
                                s, data, now)) >>

\* lines 901-915: nothing is emitted for a connection that has no registry
\* entry; otherwise the message goes out once, by io.emit
ChatMessageEmits(users, s, data, now, all) ==
    IF s \in DOMAIN users
    THEN << IoEmit(all, "chat-message",
                   ChatMessageObject(users[s], s, data, now)) >>
    ELSE << >>

\* the chat-message events among `out` that are sent to socket x, in the
\* order of their emission
ChatSentTo(out, x) ==
    LET sel == SelectSeq(out, LAMBDA e : e.event = "chat-message" /\ x \in e.to)
    IN  [i \in DOMAIN sel |-> sel[i].data]

\* socket.on('chat-message')
ChatMessage(s, data) ==
    /\ sockets[s] = "open"
    /\ \A x \in OpenSockets : Len(messages[x]) + Len(chan[x]) < MaxChat
    /\ LET out == ChatMessageEmits(connectedUsers, s, data, clock, OpenSockets)
       IN  /\ emitted' = out
           /\ chan'    = [x \in Sockets |-> chan[x] \o ChatSentTo(out, x)]
    /\ UNCHANGED <<sockets, connectedUsers, streamState, clock, messages, admin>>

\* Chat.jsx lines 12-14: the page of socket s receives the oldest event in
\* flight on its connection (one connection carries its events in order) and
\* appends it: setMessages(prev => [...prev, data])
Deliver(s) ==
    /\ sockets[s] = "open"
    /\ chan[s] # << >>
    /\ messages' = [messages EXCEPT ![s] = Append(@, Head(chan[s]))]
    /\ chan'     = [chan EXCEPT ![s] = Tail(@)]
    /\ UNCHANGED <<sockets, connectedUsers, streamState, clock, emitted, admin>>

\* the chat handlers with the handlers they depend on.  A message copies
\* username and isAdmin from the registry and id and timestamp from the
\* clock; the senders here differ by socket id and username, all register as
\* viewers, and the clock stands still.
NextChat ==
    \/ \E s \in Sockets : Connection(s)
    \/ \E s \in Sockets, n \in Usernames : UserInfo(s, n, FALSE)
    \/ \E s \in Sockets, data \in ChatData : ChatMessage(s, data)
    \/ \E s \in Sockets : Deliver(s)
    \/ \E s \in Sockets : Disconnect(s)

SpecChat == Init /\ [][NextChat]_vars

\* a chat-message event whose payload also claims a sender name and role
ClaimedChatData == [message : {"hi"}, username : Usernames, isAdmin : BOOLEAN]

\* the server side of chat with every registration and a moving clock; what
\* a client does with the events it is sent is left to SpecChat
NextChatServer ==
    \/ \E s \in Sockets : Connection(s)
    \/ Tick
    \/ \E s \in Sockets, n \in Usernames, a \in BOOLEAN : UserInfo(s, n, a)
    \/ \E s \in Sockets, data \in ClaimedChatData : ChatMessage(s, data)
    \/ \E s \in Sockets : Disconnect(s)

SpecChatServer == Init /\ [][NextChatServer]_vars

\* ------------------------------------------ the broadcaster page (AdminPanel)
\* src/unnamed/part_000.  `admin` is the state of one AdminPanel component:
\*   streamRef    streamRef.current holds a MediaStream
\*   isStreaming  the React state isStreaming
\*   rendered     the isStreaming of the last render: what the start/stop
\*                button and the socket handlers' closure see
\*   pending      calls of startStream waiting for getUserMedia
\*   peersRef     peersRef.current: viewer socket id -> peer
\*   live         the peers created and not destroyed, each with its viewer
\*   made         the peers created so far (the next peer's identity)
\* The events viewer-joined and viewer-left reach the page in any number and
\* order: the server sends them on every join and leave.
MaxPeers   == 4          \* peers the page creates during a run
MaxPending == 2          \* startStream calls waiting for the camera at once

\* the peer held for viewer v
PeerOf(a, v) == [id |-> a.peersRef[v], viewer |-> v]
\* peersRef.current.delete(v)
PeersDelete(m, v) == [x \in DOMAIN m \ {v} |-> m[x]]

\* a createPeerConnection without the check of line 85
CreatePeerConnectionNoDupCheck(a, v) ==
    IF ~a.streamRef
    THEN a
    ELSE [a EXCEPT
            !.peersRef = [x \in DOMAIN a.peersRef \cup {v} |->
                             IF x = v THEN a.made + 1 ELSE a.peersRef[x]],
            !.live     = @ \cup {[id |-> a.made + 1, viewer |-> v]},
            !.made     = @ + 1]

\* createPeerConnection, lines 78-138
CreatePeerConnection(a, v) ==
    IF ~a.streamRef
    THEN a
    ELSE IF v \in DOMAIN a.peersRef
         THEN a
         ELSE [a EXCEPT
                 !.peersRef = [x \in DOMAIN a.peersRef \cup {v} |->
                                  IF x = v THEN a.made + 1 ELSE a.peersRef[x]],
                 !.live     = @ \cup {[id |-> a.made + 1, viewer |-> v]},
                 !.made     = @ + 1]

\* socket.on('viewer-joined'), lines 26-31
ViewerJoinedResult(a, v) ==
    IF a.streamRef /\ a.rendered THEN CreatePeerConnection(a, v) ELSE a

\* socket.on('viewer-left'), lines 42-50
ViewerLeftClientResult(a, v) ==
    IF v \in DOMAIN a.peersRef
    THEN [a EXCEPT !.live     = @ \ {PeerOf(a, v)},
                   !.peersRef = PeersDelete(@, v)]
    ELSE a

\* peer.on('error') and peer.on('close') of the peer p, lines 113-123: the
\* peer is destroyed, and both handlers delete the entry of p's viewer
PeerClosedResult(a, p) ==
    [a EXCEPT !.live     = @ \ {p},
              !.peersRef = PeersDelete(@, p.viewer)]

\* stopStream, lines 206-240
StopStreamClientResult(a) ==
    [a EXCEPT !.streamRef   = FALSE,
              !.live        = @ \ {PeerOf(a, v) : v \in DOMAIN a.peersRef},
              !.peersRef    = << >>,
              !.isStreaming = FALSE]

\* the effect of lines 243-253 on the entries whose peer is destroyed,
\* taken in the order of their keys
RECURSIVE Reconnect(_, _)
Reconnect(a, keys) ==
    IF keys = {}
    THEN a
    ELSE LET v == CHOOSE x \in keys : \A y \in keys : x <= y
         IN  Reconnect(CreatePeerConnection(
                          [a EXCEPT !.peersRef = PeersDelete(@, v)], v),
                       keys \ {v})

\* a render: the closures take the current isStreaming, then the effect runs
RenderResult(a) ==
    LET a1 == [a EXCEPT !.rendered = a.isStreaming]
    IN  IF a1.isStreaming /\ a1.streamRef
        THEN Reconnect(a1, {v \in DOMAIN a1.peersRef : PeerOf(a1, v) \notin a1.live})
        ELSE a1

AdminStep(a) ==
    /\ admin' = a
    /\ UNCHANGED <<sockets, connectedUsers, streamState, clock, emitted, chatVars>>

\* the Start button (shown while the rendered isStreaming is false) is
\* clicked: startStream runs up to its await, line 158
StartStreamClick ==
    /\ ~admin.rendered
    /\ admin.pending < MaxPending
    /\ AdminStep([admin EXCEPT !.pending = @ + 1])

\* getUserMedia resolves: lines 172-189
StartStreamGranted ==
    /\ admin.pending > 0
    /\ AdminStep([admin EXCEPT !.pending     = @ - 1,
                               !.streamRef   = TRUE,
                               !.isStreaming = TRUE])

\* getUserMedia rejects: the catch of lines 191-201
StartStreamDenied ==
    /\ admin.pending > 0
    /\ AdminStep([admin EXCEPT !.pending     = @ - 1,
                               !.streamRef   = FALSE,
                               !.isStreaming = FALSE])

\* the Stop button (shown while the rendered isStreaming is true) is clicked
StopStreamClick ==
    /\ admin.rendered
    /\ AdminStep(StopStreamClientResult(admin))

Render ==
    /\ admin.rendered # admin.isStreaming
    /\ AdminStep(RenderResult(admin))

ViewerJoined(v) ==
    /\ admin.made < MaxPeers
    /\ AdminStep(ViewerJoinedResult(admin, v))

ViewerLeft(v) == AdminStep(ViewerLeftClientResult(admin, v))

PeerClosed(p) ==
    /\ p \in admin.live
    /\ AdminStep(PeerClosedResult(admin, p))

NextAdmin ==
    \/ StartStreamClick
    \/ StartStreamGranted
    \/ StartStreamDenied
    \/ StopStreamClick
    \/ Render
    \/ \E v \in Sockets : ViewerJoined(v)
    \/ \E v \in Sockets : ViewerLeft(v)
    \/ \E p \in [id : 1..MaxPeers, viewer : Sockets] : PeerClosed(p)

SpecAdmin == Init /\ [][NextAdmin]_vars

\* ======================================================================
\* Properties
\* ======================================================================
ActiveStreams == streamState.activeStreams
Primary       == streamState.currentAdminSocketId
\* the event names of a sequence of emissions
Kinds(out)    == [i \in DOMAIN out |-> out[i].event]
\* s sends start-stream and the handler reaches line 713
StartSucceeds(s) ==
    /\ StartStream(s)
    /\ IsAdminUser(connectedUsers, s)
    /\ ~MapHas(ActiveStreams, s)

\* C1: in every reachable state isLive is true iff activeStreams is non-empty
C1_LiveIffSessions ==
    streamState.isLive <=> (MapSize(ActiveStreams) > 0)

\* a stream that went on after its primary left, and one that ended
C1_Witness ==
    /\ Len(emitted) = 1
    /\ emitted[1].event = "stream-transition"
    /\ streamState.isLive
    /\ \E s \in Sockets : sockets[s] = "closed"

\* C2: currentAdminSocketId is non-null iff isLive, and when non-null it is
\* a key of activeStreams
C2_PrimaryIsSession ==
    /\ (Primary # null) <=> streamState.isLive
    /\ (Primary # null) => MapHas(ActiveStreams, Primary)

\* the primary is a session that was not inserted first
C2_Witness ==
    /\ Primary # null
    /\ MapSize(ActiveStreams) >= 2
    /\ MapHas(ActiveStreams, Primary)
    /\ ActiveStreams[1].id # Primary

\* C3: a successful start-stream while the state is already LIVE adds the
\* caller's session and leaves currentAdminSocketId unchanged
C3_SecondStartKeepsPrimary ==
    [][\A s \in Sockets :
          (StartSucceeds(s) /\ streamState.isLive)
          => /\ MapHas(ActiveStreams', s)
             /\ Primary' = Primary]_vars

\* C4: A started first, B second; when A stops or disconnects while B's
\* session is active, stream-transition naming B goes to all connections,
\* the primary becomes B and isLive stays true
C4_FirstLeavesSecondTakesOver ==
    [][\A a, b \in Sockets :
          ( /\ a # b
            /\ MapSize(ActiveStreams) = 2
            /\ ActiveStreams[1].id = a
            /\ ActiveStreams[2].id = b
            /\ IsAdminUser(connectedUsers, a)
            /\ (StopStream(a) \/ Disconnect(a)) )
          => /\ streamState'.isLive
             /\ Primary' = b
             /\ Len(emitted') = 1
             /\ emitted'[1].event = "stream-transition"
             /\ emitted'[1].data.newAdminSocketId = b
             /\ emitted'[1].to = OpenSockets']_vars

\* C5: when the primary's session is removed and other sessions remain, the
\* new primary is the remaining session that was inserted earliest: every
\* session inserted before it is the one that was removed
C5_FailoverIsFifo ==
    [][( /\ Primary # null
         /\ MapHas(ActiveStreams, Primary)
         /\ ~MapHas(ActiveStreams', Primary)
         /\ MapSize(ActiveStreams') > 0 )
       => \E i \in DOMAIN ActiveStreams :
             /\ ActiveStreams[i].id = Primary'
             /\ MapHas(ActiveStreams', Primary')
             /\ \A j \in 1..(i - 1) : ActiveStreams[j].id = Primary]_vars

\* a failover that had two sessions to choose from
C5_Witness ==
    /\ Len(emitted) = 1
    /\ emitted[1].event = "stream-transition"
    /\ MapSize(ActiveStreams) >= 2
    /\ Primary = emitted[1].data.newAdminSocketId

\* C6: the disconnect of a broadcaster that has a session leaves the stream
\* state an explicit stop-stream from it would have left, and emits the same
\* kinds of events (the same new primary, or stream-ended then stream-status)
C6_DisconnectAsStop ==
    [][\A s \in Sockets :
          ( /\ Disconnect(s)
            /\ IsAdminUser(connectedUsers, s)
            /\ MapHas(ActiveStreams, s) )
          => LET stop == StopStreamResult(streamState, connectedUsers, s, OpenSockets)
             IN  /\ streamState' = stop.state
                 /\ Kinds(emitted') = Kinds(stop.out)
                 /\ \A i \in DOMAIN emitted' :
                       /\ emitted'[i].event = "stream-transition"
                            => emitted'[i].data.newAdminSocketId
                                 = stop.out[i].data.newAdminSocketId
                       /\ emitted'[i].event = "stream-status"
                            => emitted'[i].data = stop.out[i].data]_vars

\* a broadcaster's disconnect that ended the stream
C6_Witness ==
    /\ Len(emitted) = 2
    /\ emitted[1].event = "stream-ended"
    /\ emitted[1].data.message = "Stream ended - Admin disconnected"
    /\ ~streamState.isLive

\* C7: every key of activeStreams is a currently registered connection: no
\* session outlives the connection that started it
C7_SessionsAreRegistered ==
    \A k \in MapKeys(ActiveStreams) :
        /\ sockets[k] = "open"
        /\ k \in DOMAIN connectedUsers

\* C8: start-stream from a connection that is not a registered broadcaster,
\* or that already has a session, sends stream-error to the caller alone and
\* leaves the stream state and the registry as they were
C8_StartRejected ==
    [][\A s \in Sockets :
          ( /\ StartStream(s)
            /\ (~IsAdminUser(connectedUsers, s) \/ MapHas(ActiveStreams, s)) )
          => /\ streamState' = streamState
             /\ connectedUsers' = connectedUsers
             /\ Len(emitted') = 1
             /\ emitted'[1].event = "stream-error"
             /\ emitted'[1].to = {s}]_vars

\* a broadcaster with a session was refused a second one
C8_Witness ==
    \E s \in Sockets :
        /\ emitted = << SocketEmit(s, "stream-error",
                           [message |-> "You are already streaming"]) >>
        /\ MapHas(ActiveStreams, s)

\* C9: a successful start-stream in state OFFLINE inserts the caller's
\* session, sets isLive, makes the caller the primary, sets startTime to the
\* current time and emits stream-started, with the caller's name and id, to
\* all connections
C9_FirstStart ==
    [][\A s \in Sockets :
          (StartSucceeds(s) /\ ~streamState.isLive)
          => /\ MapKeys(ActiveStreams') = {s}
             /\ streamState'.isLive
             /\ Primary' = s
             /\ streamState'.startTime = clock
             /\ Len(emitted') >= 1
             /\ emitted'[1].event = "stream-started"
             /\ emitted'[1].to = OpenSockets
             /\ emitted'[1].data.adminUsername = connectedUsers[s].username
             /\ emitted'[1].data.adminSocketId = s
             /\ emitted'[1].data.startTime = clock]_vars

\* a first start after the clock has advanced
C9_Witness ==
    /\ Len(emitted) = 2
    /\ emitted[1].event = "stream-started"
    /\ MapSize(ActiveStreams) = 1
    /\ clock > 0
    /\ streamState.startTime = clock

\* C10: when the last remaining session is removed the state becomes OFFLINE
\* with primary null, startTime null and viewerCount 0, and stream-ended goes
\* to all connections, followed by a stream-status with isLive=false and
\* viewerCount=0
C10_LastSessionEndsStream ==
    [][(MapSize(ActiveStreams) = 1 /\ MapSize(ActiveStreams') = 0)
       => /\ ~streamState'.isLive
          /\ Primary' = null
          /\ streamState'.startTime = null
          /\ streamState'.viewerCount = 0
          /\ Kinds(emitted') = << "stream-ended", "stream-status" >>
          /\ emitted'[1].to = OpenSockets'
          /\ emitted'[2].to = OpenSockets'
          /\ emitted'[2].data.isLive = FALSE
          /\ emitted'[2].data.viewerCount = 0]_vars

\* an explicit stop ended the stream while other connections were listening
C10_Witness ==
    /\ Len(emitted) = 2
    /\ emitted[1].event = "stream-ended"
    /\ emitted[1].data.message = "Live stream ended"
    /\ Cardinality(emitted[1].to) >= 2
    /\ streamState = [isLive |-> FALSE, activeStreams |-> << >>, viewerCount |-> 0,
                      startTime |-> null, currentAdminSocketId |-> null]

\* C11: stop-stream from a connection without a session changes nothing and
\* emits nothing; stop-stream from a connection that has a session removes
\* that session, whatever its registry entry has become
C11_StopRemovesSession ==
    [][\A s \in Sockets :
          StopStream(s)
          => IF MapHas(ActiveStreams, s)
             THEN ~MapHas(ActiveStreams', s)
             ELSE /\ streamState' = streamState
                  /\ connectedUsers' = connectedUsers
                  /\ emitted' = << >>]_vars

\* C13: join-stream while OFFLINE, or from a broadcaster, fails: the caller
\* alone receives stream-error, the stream state is unchanged and neither
\* viewer-joined nor viewer-count-update is emitted
C13_JoinRejected ==
    [][\A s \in Sockets :
          ( /\ JoinStream(s)
            /\ (~streamState.isLive \/ IsAdminUser(connectedUsers, s)) )
          => /\ streamState' = streamState
             /\ connectedUsers' = connectedUsers
             /\ Kinds(emitted') = << "stream-error" >>
             /\ emitted'[1].to = {s}]_vars

\* a broadcaster was refused as a viewer of a live stream
C13_Witness ==
    \E s \in Sockets :
        /\ emitted = << SocketEmit(s, "stream-error",
                           [message |-> "Failed to join stream"]) >>
        /\ IsAdminUser(connectedUsers, s)
        /\ streamState.isLive

\* C14: a successful join-stream (registered viewer, state LIVE) adds exactly
\* 1 to viewerCount, delivers viewer-joined (viewer id and name) to the
\* primary's connection and to no other, broadcasts viewer-count-update with
\* the new count to all connections and confirms to the caller
C14_JoinNotifiesPrimary ==
    [][\A s \in Sockets :
          ( /\ JoinStream(s)
            /\ IsViewerUser(connectedUsers, s)
            /\ streamState.isLive )
          => /\ streamState' = [streamState EXCEPT !.viewerCount = @ + 1]
             /\ Kinds(emitted') = << "viewer-joined", "viewer-count-update",
                                     "viewer-joined-confirmed" >>
             /\ emitted'[1].to = {Primary}
             /\ emitted'[1].data.viewerSocketId = s
             /\ emitted'[1].data.viewerUsername = connectedUsers[s].username
             /\ emitted'[2].to = OpenSockets
             /\ emitted'[2].data.viewerCount = streamState'.viewerCount
             /\ emitted'[3].to = {s}]_vars

\* C15: leave-stream while OFFLINE changes nothing and emits nothing; a
\* viewer's leave-stream while LIVE takes 1 from viewerCount (not below 0),
\* delivers viewer-left to the primary only and broadcasts
\* viewer-count-update with the new count to all connections
C15_LeaveNotifiesPrimary ==
    [][\A s \in Sockets :
          LeaveStream(s)
          => IF ~streamState.isLive
             THEN /\ streamState' = streamState
                  /\ connectedUsers' = connectedUsers
                  /\ emitted' = << >>
             ELSE IsViewerUser(connectedUsers, s)
                  => /\ streamState' = [streamState EXCEPT
                                           !.viewerCount = Max(0, @ - 1)]
                     /\ Kinds(emitted') = << "viewer-left", "viewer-count-update" >>
                     /\ emitted'[1].to = {Primary}
                     /\ emitted'[1].data.viewerSocketId = s
                     /\ emitted'[2].to = OpenSockets
                     /\ emitted'[2].data.viewerCount = streamState'.viewerCount]_vars

\* C12: viewerCount is never negative, whatever the numbers of join-stream,
\* leave-stream and viewer disconnects
C12_ViewerCountNonNegative ==
    streamState.viewerCount >= 0

\* a leave-stream or a viewer's disconnect left the count of a live stream at 0
C12_Witness ==
    /\ streamState.isLive
    /\ streamState.viewerCount = 0
    /\ Kinds(emitted) = << "viewer-left", "viewer-count-update" >>
    /\ emitted[2].data.viewerCount = 0

\* the handler that ran last was the leave-stream of s, which is still
\* connected: s is not a counted viewer now
JustLeft(s) ==
    /\ sockets[s] = "open"
    /\ Len(emitted) >= 1
    /\ emitted[1].event = "viewer-left"
    /\ emitted[1].data.viewerSocketId = s

\* the disconnect of s removed its session
SessionRemoved(s) == MapHas(ActiveStreams, s) /\ ~MapHas(ActiveStreams', s)

\* C16: the disconnect of a viewer that is not counted (here: one that has
\* just left) leaves viewerCount unchanged, and no disconnect applies both
\* the stop-broadcast and the leave-viewer effect
C16_DisconnectOfUncountedViewer ==
    [][\A s \in Sockets :
          Disconnect(s)
          => /\ (JustLeft(s) /\ IsViewerUser(connectedUsers, s))
                   => streamState'.viewerCount = streamState.viewerCount
             /\ ~(SessionRemoved(s) /\ "viewer-left" \in {emitted'[i].event : i \in DOMAIN emitted'})]_vars

\* C17: a leave-stream from a viewer that is not counted (here: one that has
\* just left) changes nothing, even while other viewers are counted
C17_LeaveOfUncountedViewer ==
    [][\A s \in Sockets :
          (JustLeft(s) /\ LeaveStream(s))
          => streamState' = streamState]_vars

\* the connections an emission sequence reaches
Reached(out) == UNION {out[i].to : i \in DOMAIN out}

\* a handler that emitted webrtc-signal ran last
SignalRelayed(out) == \E i \in DOMAIN out : out[i].event = "webrtc-signal"

\* C18: a webrtc-signal addressed to the connection X is delivered to X and
\* to no other connection, with the caller's payload and type tag unmodified
\* and with from equal to the true sender, whatever from the caller gave:
\* in every reachable state, for every event a connected client can send
C18_SignalToDestinationOnly ==
    \A s \in OpenSockets, data \in SignalData :
        LET out == WebrtcSignalEmits(data, s, OpenSockets)
        IN  /\ Reached(out) \subseteq {data.to}
            /\ data.to \in OpenSockets
                 => out = << [event |-> "webrtc-signal",
                              to    |-> {data.to},
                              data  |-> [signal |-> data.signal,
                                         from   |-> s,
                                         type   |-> data.type]] >>

\* a signal reached a connection other than its sender
C18_Witness ==
    /\ Len(emitted) = 1
    /\ emitted[1].event = "webrtc-signal"
    /\ \E x \in OpenSockets : emitted[1].to = {x} /\ emitted[1].data.from # x

Received(x) == messages[x] \o chan[x]
IsSuffix(u, v) ==
    /\ Len(u) <= Len(v)
    /\ \A i \in 1..Len(u) : u[i] = v[Len(v) - Len(u) + i]

\* C20: every chat message accepted from a registered connection is sent
\* to every registered connection, the sender included, and any two
\* connections that both receive two chat messages receive them in the same
\* relative order, the order in which the server processed them: of the
\* message sequences of two connections one is the tail of the other
C20_ChatFanOutInOrder ==
    /\ [][\A s \in Sockets, data \in ChatData :
            ChatMessage(s, data) /\ s \in DOMAIN connectedUsers
               => \A x \in DOMAIN connectedUsers :
                     /\ Len(chan'[x]) = Len(chan[x]) + 1
                     /\ LET m == chan'[x][Len(chan'[x])]
                        IN  /\ m.message  = data.message
                            /\ m.socketId = s
                            /\ m.username = connectedUsers[s].username]_vars
    /\ [](\A a, b \in Sockets :
             IsSuffix(Received(a), Received(b)) \/ IsSuffix(Received(b), Received(a)))

\* two pages have each received the same two different messages, sent by
\* two different connections
C20_Witness ==
    \E a, b \in Sockets :
        /\ a # b
        /\ Len(messages[a]) = 2
        /\ messages[a] = messages[b]
        /\ messages[a][1].socketId = a
        /\ messages[a][2].socketId = b
        /\ messages[a][1].message # messages[a][2].message

\* C21: a chat-message from a connection that has no registry entry
\* fails: no chat message is delivered to any connection and no state changes
C21_UnregisteredChatDropped ==
    [][\A s \in Sockets, data \in ChatData :
          ChatMessage(s, data) /\ s \notin DOMAIN connectedUsers
             => /\ emitted' = << >>
                /\ UNCHANGED <<sockets, connectedUsers, streamState, clock,
                               chan, messages, admin>>]_vars

\* a connection without a registry entry is open where chat is in use, and
\* the handler that ran last emitted nothing
C21_Witness ==
    /\ emitted = << >>
    /\ \A x \in Sockets : chan[x] = << >>
    /\ \E u \in OpenSockets \ DOMAIN connectedUsers, r \in DOMAIN connectedUsers :
          messages[r] # << >> /\ messages[u] = << >>

\* C27: any two chat messages emitted by the server carry distinct ids,
\* including two messages processed with no clock advance between them
C27_ChatIdsDistinct ==
    \A x \in Sockets : \A i, j \in DOMAIN chan[x] :
        i # j => chan[x][i].id # chan[x][j].id

\* C28: the sender name and role carried by every delivered chat message
\* equal the sender connection's current registry entry, never a name or
\* role supplied in the chat payload
C28_ChatSenderFromRegistry ==
    /\ \A i \in DOMAIN emitted :
          emitted[i].event = "chat-message"
             => LET m == emitted[i].data
                IN  /\ m.socketId \in DOMAIN connectedUsers
                    /\ m.username = connectedUsers[m.socketId].username
                    /\ m.isAdmin  = connectedUsers[m.socketId].isAdmin
    /\ \A s \in DOMAIN connectedUsers, data \in ClaimedChatData :
          LET out == ChatMessageEmits(connectedUsers, s, data, clock, OpenSockets)
          IN  /\ Len(out) = 1
              /\ out[1].data.username = connectedUsers[s].username
              /\ out[1].data.isAdmin  = connectedUsers[s].isAdmin

\* one connection sent two messages and registered anew between them: each
\* message carries the entry of its time
C28_Witness ==
    \E x \in Sockets :
        /\ Len(chan[x]) = 2
        /\ chan[x][1].socketId = chan[x][2].socketId
        /\ chan[x][1].username # chan[x][2].username
        /\ chan[x][1].isAdmin  # chan[x][2].isAdmin
        /\ emitted # << >>

\* the events that announce a change of isLive
Discrete == {"stream-started", "stream-ended"}
\* in one handler's emissions every stream-status that goes out with a
\* discrete event comes after it, goes to nobody the event did not go to,
\* and shows the state the event announced
StatusAfterDiscrete(out) ==
    \A j \in DOMAIN out :
        (out[j].event = "stream-status" /\ \E i \in DOMAIN out : out[i].event \in Discrete)
           => \E i \in 1..(j - 1) :
                 /\ out[i].event \in Discrete
                 /\ out[j].to \subseteq out[i].to
                 /\ out[j].data.isLive = (out[i].event = "stream-started")

\* C22: for every transition that emits both a discrete event
\* (stream-started or stream-ended) and a stream-status snapshot, every
\* connection is sent the discrete event before the snapshot; and every
\* change of isLive is announced by its discrete event, to all connections,
\* in the handler that makes it, ahead of the snapshot
C22_DiscreteBeforeStatus ==
    /\ [](StatusAfterDiscrete(emitted))
    /\ [][streamState'.isLive # streamState.isLive
             => /\ Kinds(emitted') =
                      << IF streamState'.isLive THEN "stream-started" ELSE "stream-ended",
                         "stream-status" >>
                /\ emitted'[1].to = OpenSockets'
                /\ emitted'[2].to = OpenSockets'
                /\ emitted'[2].data = StatusOf(streamState')]_vars

\* the last broadcaster left: stream-ended, then the offline snapshot, both
\* to the two connections that remain
C22_Witness ==
    /\ Kinds(emitted) = << "stream-ended", "stream-status" >>
    /\ Cardinality(emitted[1].to) = 2
    /\ \E x \in Sockets : sockets[x] = "closed"

\* C23: user-info creates or overwrites the registry entry of the calling
\* connection only, changes nothing in the stream state, replies to the
\* caller alone with a stream-status snapshot of the current isLive,
\* viewerCount, startTime and primary; registering again with the same name
\* and role leaves the registry as it is
C23_RegisterOverwritesOwnEntry ==
    [][\A s \in Sockets, n \in Usernames, a \in BOOLEAN :
          UserInfo(s, n, a)
             => /\ DOMAIN connectedUsers' = DOMAIN connectedUsers \cup {s}
                /\ connectedUsers'[s] = [username |-> n, isAdmin |-> a]
                /\ \A x \in DOMAIN connectedUsers \ {s} :
                      connectedUsers'[x] = connectedUsers[x]
                /\ UserInfoSet(connectedUsers', s, n, a) = connectedUsers'
                /\ streamState' = streamState
                /\ emitted' = << [event |-> "stream-status",
                                  to    |-> {s},
                                  data  |-> [isLive      |-> streamState.isLive,
                                             viewerCount |-> streamState.viewerCount,
                                             startTime   |-> streamState.startTime,
                                             currentAdminSocketId |-> Primary]] >>]_vars

\* a broadcaster with a live session has registered anew as a viewer and
\* was answered, alone, with the live snapshot
C23_Witness ==
    \E s \in Sockets :
        /\ MapHas(ActiveStreams, s)
        /\ IsViewerUser(connectedUsers, s)
        /\ Cardinality(OpenSockets) >= 2
        /\ Kinds(emitted) = << "stream-status" >>
        /\ emitted[1].to = {s}
        /\ emitted[1].data.isLive

\* C24: get-stream-status is a pure read: it leaves the stream state and
\* the registry unchanged and sends a snapshot of the current isLive,
\* viewerCount, startTime and primary to the calling connection only
C24_StatusIsPureRead ==
    [][\A s \in Sockets :
          GetStreamStatus(s)
             => /\ streamState' = streamState
                /\ connectedUsers' = connectedUsers
                /\ emitted' = << [event |-> "stream-status",
                                  to    |-> {s},
                                  data  |-> [isLive      |-> streamState.isLive,
                                             viewerCount |-> streamState.viewerCount,
                                             startTime   |-> streamState.startTime,
                                             currentAdminSocketId |-> Primary]] >>]_vars

\* a connection without a registry entry asked and was answered, alone, with
\* the snapshot of a live stream that has a viewer
C24_Witness ==
    \E s \in OpenSockets \ DOMAIN connectedUsers :
        /\ Cardinality(OpenSockets) >= 2
        /\ Kinds(emitted) = << "stream-status" >>
        /\ emitted[1].to = {s}
        /\ emitted[1].data.isLive
        /\ emitted[1].data.viewerCount > 0

\* C25: a successful start-stream while the state is already LIVE leaves
\* startTime unchanged and emits no stream-started event
C25_StartWhileLiveIsQuiet ==
    [][\A s \in Sockets :
          StartSucceeds(s) /\ streamState.isLive
             => /\ streamState'.startTime = streamState.startTime
                /\ \A i \in DOMAIN emitted' : emitted'[i].event # "stream-started"]_vars

\* C26: when a non-primary broadcaster's session is removed, by stop-stream
\* or by disconnect, only that session is removed: isLive, the primary,
\* startTime and viewerCount are unchanged and nothing is emitted
C26_NonPrimaryRemovalIsSilent ==
    [][\A s \in Sockets :
          (StopStream(s) \/ Disconnect(s)) /\ SessionRemoved(s) /\ Primary # s
             => /\ streamState' = [streamState EXCEPT
                                      !.activeStreams = MapDelete(@, s)]
                /\ emitted' = << >>]_vars

\* a live stream with a viewer, whose primary is the only session left,
\* beside a registered broadcaster without a session, after a handler that
\* emitted nothing
C26_Witness ==
    /\ streamState.isLive
    /\ MapSize(ActiveStreams) = 1
    /\ streamState.viewerCount > 0
    /\ emitted = << >>
    /\ \E s \in Sockets :
          /\ IsAdminUser(connectedUsers, s)
          /\ ~MapHas(ActiveStreams, s)

\* C30: whenever the state is OFFLINE, viewerCount is 0 and startTime is null
C30_OfflineIsClean ==
    ~streamState.isLive
       => streamState.viewerCount = 0 /\ streamState.startTime = null

\* the stream has just ended under two registered viewers
C30_Witness ==
    /\ ~streamState.isLive
    /\ Kinds(emitted) = << "stream-ended", "stream-status" >>
    /\ Cardinality({s \in Sockets : IsViewerUser(connectedUsers, s)}) = 2

\* C29: the broadcaster page holds at most one peer per viewer id at any
\* time, and every peer it holds is the one in its map; a viewer-joined for
\* a viewer that has a peer creates none; a peer is created only while a
\* local media stream exists; viewer-left and peer error/close remove that
\* viewer's peer; after stopStream there is no peer
C29_OnePeerPerViewer ==
    /\ [](/\ \A p, q \in admin.live : p.viewer = q.viewer => p = q
          /\ admin.live = {PeerOf(admin, v) : v \in DOMAIN admin.peersRef})
    /\ [][/\ \A v \in Sockets :
                ViewerJoined(v) /\ v \in DOMAIN admin.peersRef
                   => admin'.live = admin.live /\ admin'.peersRef = admin.peersRef
          /\ admin'.made # admin.made => admin.streamRef /\ admin'.streamRef
          /\ \A v \in Sockets :
                ViewerLeft(v)
                   => /\ v \notin DOMAIN admin'.peersRef
                      /\ \A p \in admin'.live : p.viewer # v
          /\ \A p \in admin.live :
                PeerClosed(p)
                   => /\ p \notin admin'.live
                      /\ p.viewer \notin DOMAIN admin'.peersRef
          /\ StopStreamClick
                => admin'.live = {} /\ admin'.peersRef = << >>]_vars

\* the page holds peers for two viewers, one of them made anew after that
\* viewer's earlier peer had gone
C29_Witness ==
    /\ admin.streamRef
    /\ Cardinality(admin.live) = 2
    /\ admin.made = 3

\* the handler that ran last was the successful join-stream of s: s is a
\* connected viewer that has joined and not left, and is counted
JustJoined(s) ==
    /\ sockets[s] = "open"
    /\ emitted # << >>
    /\ emitted[Len(emitted)].event = "viewer-joined-confirmed"
    /\ emitted[Len(emitted)].to = {s}

\* C31: while LIVE viewerCount is the number of connected viewer
\* connections that have joined and not since left; in particular a
\* join-stream from a viewer that is counted (here: one that has just joined)
\* leaves the count as it is
C31_RepeatedJoinCountsOnce ==
    [][\A s \in Sockets :
          (JustJoined(s) /\ JoinStream(s))
             => streamState'.viewerCount = streamState.viewerCount]_vars

\* C32: in every reachable state the isPrimary flag of a session entry is
\* true exactly for the entry whose key is currentAdminSocketId, so at most
\* one session is flagged primary
C32_OnePrimaryFlag ==
    \A i \in DOMAIN ActiveStreams :
        ActiveStreams[i].isPrimary <=> (ActiveStreams[i].id = Primary)

\* C33: a primary failover (stop-stream or disconnect removes the primary's
\* session while other sessions remain) leaves viewerCount and startTime
\* unchanged and keeps isLive true; only the primary and the mapping change
C33_FailoverKeepsCountAndTime ==
    [][\A s \in Sockets :
          ( /\ StopStream(s) \/ Disconnect(s)
            /\ SessionRemoved(s)
            /\ Primary = s
            /\ MapSize(ActiveStreams) >= 2 )
             => /\ streamState'.isLive
                /\ streamState'.viewerCount = streamState.viewerCount
                /\ streamState'.startTime   = streamState.startTime
                /\ ActiveStreams' = MapDelete(ActiveStreams, s)
                /\ MapHas(ActiveStreams', Primary')]_vars

\* a failover has just been announced on a live stream that has a viewer
\* and a start time
C33_Witness ==
    /\ Kinds(emitted) = << "stream-transition" >>
    /\ streamState.isLive
    /\ streamState.viewerCount > 0
    /\ streamState.startTime # null
    /\ Primary = emitted[1].data.newAdminSocketId

====
